---- MODULE Spec2Model ----
(***************************************************************************)
(* n9-node-routing: the session authorization gate (authorizationChecker   *)
(* of start-express-app.ts) and the error normalization middleware         *)
(* (ErrorHandler.error), as one request travelling through the routing     *)
(* pipeline of a gated route.                                              *)
(*                                                                         *)
(* A header text is a sequence of JSON lexemes; JavaScript values are      *)
(* records of one shape so that any two of them can be compared.           *)
(***************************************************************************)
EXTENDS Integers, Sequences, FiniteSets, TLC

\* Longest session header, in lexemes, that a client writes by hand.
MaxLen == 5

\* HTTP status of the three failures of the gate.
Unauthorized == 401

\* Status of a failure that declares none.
DefaultStatus == 500

----------------------------------------------------------------------------
(* JavaScript values *)

NoProps == [k \in {} |-> 0]

Undefined == [type |-> "undefined", num |-> 0, str |-> "", bool |-> FALSE, props |-> NoProps]
Null == [type |-> "null", num |-> 0, str |-> "", bool |-> FALSE, props |-> NoProps]
Num(n) == [type |-> "number", num |-> n, str |-> "", bool |-> FALSE, props |-> NoProps]
Str(s) == [type |-> "string", num |-> 0, str |-> s, bool |-> FALSE, props |-> NoProps]
Bool(b) == [type |-> "boolean", num |-> 0, str |-> "", bool |-> b, props |-> NoProps]
Obj(p) == [type |-> "object", num |-> 0, str |-> "", bool |-> FALSE, props |-> p]

\* ToBoolean, as `!x` and `a || b` apply it.
Truthy(v) ==
    CASE v.type = "undefined" -> FALSE
      [] v.type = "null" -> FALSE
      [] v.type = "number" -> v.num # 0
      [] v.type = "string" -> v.str # ""
      [] v.type = "boolean" -> v.bool
      [] OTHER -> TRUE

\* v.k throws a TypeError exactly when v is null or undefined.
PropertyReadThrows(v) == v.type \in {"null", "undefined"}

\* v.k for a value on which the read does not throw.
GetProp(v, k) ==
    IF v.type = "object" /\ k \in DOMAIN v.props THEN v.props[k] ELSE Undefined

----------------------------------------------------------------------------
(* JSON text as lexemes *)

StringLexemes == {"\"userId\"", "\"name\"", "\"\""}
NumberLexemes == {"0", "1"}
LiteralLexemes == {"null", "false", "true"}
PrimLexemes == StringLexemes \cup NumberLexemes \cup LiteralLexemes
Lexemes == PrimLexemes \cup {"{", "}", ":", ",", "bad"}

\* The characters between the quotes of a string lexeme.
StringOf(l) ==
    CASE l = "\"userId\"" -> "userId"
      [] l = "\"name\"" -> "name"
      [] OTHER -> ""

PrimOf(l) ==
    CASE l \in StringLexemes -> Str(StringOf(l))
      [] l = "0" -> Num(0)
      [] l = "1" -> Num(1)
      [] l = "null" -> Null
      [] l = "false" -> Bool(FALSE)
      [] OTHER -> Bool(TRUE)

ParseFail == [ok |-> FALSE, value |-> Undefined, rest |-> <<>>]
ParseOk(v, r) == [ok |-> TRUE, value |-> v, rest |-> r]

SetProp(p, k, v) == [x \in DOMAIN p \cup {k} |-> IF x = k THEN v ELSE p[x]]

RECURSIVE ParseValue(_), ParseMembers(_, _)

\* One JSON value at the front of s.
ParseValue(s) ==
    IF s = <<>> THEN ParseFail
    ELSE IF Head(s) \in PrimLexemes THEN ParseOk(PrimOf(Head(s)), Tail(s))
    ELSE IF Head(s) # "{" THEN ParseFail
    ELSE IF Len(s) >= 2 /\ s[2] = "}" THEN ParseOk(Obj(NoProps), Tail(Tail(s)))
    ELSE ParseMembers(Tail(s), NoProps)

\* key : value, then "," and more members or the closing brace; a repeated
\* key keeps its last value.
ParseMembers(s, p) ==
    IF Len(s) < 2 \/ s[1] \notin StringLexemes \/ s[2] # ":" THEN ParseFail
    ELSE LET v == ParseValue(Tail(Tail(s))) IN
         IF ~v.ok \/ v.rest = <<>> THEN ParseFail
         ELSE LET q == SetProp(p, StringOf(s[1]), v.value) IN
              IF Head(v.rest) = "}" THEN ParseOk(Obj(q), Tail(v.rest))
              ELSE IF Head(v.rest) = "," THEN ParseMembers(Tail(v.rest), q)
              ELSE ParseFail

\* JSON.parse: ok is FALSE where it throws a SyntaxError.
JSONParse(text) ==
    LET r == ParseValue(text) IN
    IF r.ok /\ r.rest = <<>> THEN r ELSE ParseFail

KeyOrder == <<"userId", "name", "">>

KeyLexeme(k) ==
    CASE k = "userId" -> "\"userId\""
      [] k = "name" -> "\"name\""
      [] OTHER -> "\"\""

RECURSIVE JSONStringify(_), StringifyMembers(_, _, _)

\* JSON.stringify of a value that holds no undefined.
JSONStringify(v) ==
    CASE v.type = "null" -> <<"null">>
      [] v.type = "number" -> <<IF v.num = 0 THEN "0" ELSE "1">>
      [] v.type = "string" -> <<KeyLexeme(v.str)>>
      [] v.type = "boolean" -> <<IF v.bool THEN "true" ELSE "false">>
      [] OTHER -> <<"{">> \o StringifyMembers(v.props, 1, TRUE) \o <<"}">>

StringifyMembers(p, i, first) ==
    IF i > Len(KeyOrder) THEN <<>>
    ELSE IF KeyOrder[i] \notin DOMAIN p THEN StringifyMembers(p, i + 1, first)
    ELSE (IF first THEN <<>> ELSE <<",">>)
         \o <<KeyLexeme(KeyOrder[i]), ":">> \o JSONStringify(p[KeyOrder[i]])
         \o StringifyMembers(p, i + 1, FALSE)

----------------------------------------------------------------------------
(* Failures: the values that can be thrown and handed to ErrorHandler.error *)

\* A thrown value. A field the value does not have is the empty set, a field
\* it has is the singleton of its value. context and errors hold the JSON
\* text of the detail. circular: the value refers to itself, so that
\* JSON.stringify of it throws.
Failure(t, st, hc, nm, msg, ctx, errs, circ) ==
    [type |-> t, status |-> st, httpCode |-> hc, name |-> nm, message |-> msg,
     context |-> ctx, errors |-> errs, circular |-> circ]

\* new N9Error(message, status): an Error (name 'Error') carrying the message,
\* the status and an empty context.
N9Error(message, status) ==
    Failure("object", {status}, {}, {"Error"}, {message}, {"{}"}, {}, FALSE)

\* The TypeError the runtime throws on a property read of null.
TypeErrorOnRead ==
    Failure("object", {}, {}, {"TypeError"}, {"Cannot read property 'userId' of null"},
            {}, {}, FALSE)

ObjectFailures ==
    {Failure("object", st, hc, nm, msg, ctx, errs, circ) :
        st \in {{}, {0}, {Unauthorized}, {499}, {DefaultStatus}, {503}},
        hc \in {{}, {404}, {502}},
        nm \in {{}, {""}, {"Error"}, {"TypeError"}},
        msg \in {{}, {""}, {"boom"}},
        ctx \in {{}, {"null"}, {"{\"id\":7}"}},
        errs \in {{}, {"null"}, {"[{\"property\":\"name\"}]"}},
        circ \in BOOLEAN}

\* throw 'oops', throw 42: values that are not objects but have properties
\* read as undefined.
PrimitiveFailures ==
    {Failure(t, {}, {}, {}, {}, {}, {}, FALSE) : t \in {"string", "number"}}

\* throw null, throw undefined.
NullishFailures ==
    {Failure(t, {}, {}, {}, {}, {}, {}, FALSE) : t \in {"null", "undefined"}}

Failures == ObjectFailures \cup PrimitiveFailures \cup NullishFailures

\* a || b on two optional numbers: a when it is there and not 0.
OrNum(a, b) == IF a # {} /\ a # {0} THEN a ELSE b

\* a || b on two optional strings: a when it is there and not ''.
OrStr(a, b) == IF a # {} /\ a # {""} THEN a ELSE b

\* a || b on two optional details; the JSON value null is falsy, an object or
\* an array is truthy.
OrDetail(a, b) == IF a # {} /\ a # {"null"} THEN a ELSE b

TheOne(S) == CHOOSE x \in S : TRUE

\* The status with the two fields read in the other order:
\* error.httpCode || error.status || 500.
StatusOf_HttpCodeFirst(error) ==
    TheOne(OrNum(error.httpCode, OrNum(error.status, {DefaultStatus})))

\* const status = error.status || error.httpCode || 500;
StatusOf(error) ==
    TheOne(OrNum(error.status, OrNum(error.httpCode, {DefaultStatus})))

\* The code without the else-if branch: the message is never used.
CodeOf_NameOnly(error) ==
    IF OrStr(error.name, {}) # {} /\ error.name # {"Error"} THEN TheOne(error.name)
    ELSE "unspecified-error"

\* The code with the message tried before the name.
CodeOf_MessageFirst(error) ==
    IF OrStr(error.message, {}) # {} THEN TheOne(error.message)
    ELSE IF OrStr(error.name, {}) # {} /\ error.name # {"Error"} THEN TheOne(error.name)
    ELSE "unspecified-error"

\* let code = 'unspecified-error'; if (error.name && error.name !== 'Error')
\* code = error.name; else if (error.message) code = error.message;
CodeOf(error) ==
    IF OrStr(error.name, {}) # {} /\ error.name # {"Error"} THEN TheOne(error.name)
    ELSE IF OrStr(error.message, {}) # {} THEN TheOne(error.message)
    ELSE "unspecified-error"

\* The context with the two fields read in the other order:
\* error.errors || error.context || {}.
ContextOf_ErrorsFirst(error) ==
    TheOne(OrDetail(error.errors, OrDetail(error.context, {"{}"})))

\* const context = error.context || error.errors || {};
ContextOf(error) ==
    TheOne(OrDetail(error.context, OrDetail(error.errors, {"{}"})))

\* Which logger method the status selects.
SeverityOf(status) == IF status < 500 THEN "warn" ELSE "error"

\* The log call throws before anything is logged when its arguments cannot be
\* evaluated: the warn branch serializes the failure with JSON.stringify.
LogThrows(error, status) == SeverityOf(status) = "warn" /\ error.circular

ErrorBody(code, status, context) ==
    [kind |-> "error", result |-> Undefined, code |-> code, status |-> status,
     context |-> context]
ResultBody(v) ==
    [kind |-> "result", result |-> v, code |-> "", status |-> 0, context |-> ""]

\* ErrorHandler.error(error, request, response): the status, code and context
\* it computed (none when reading error.status threw), what it logged, what
\* it wrote to the response, and whether it ended by throwing.
ErrorHandlerRun(error) ==
    IF error.type \in {"null", "undefined"}
    THEN [threw |-> TRUE, logFailed |-> FALSE, locals |-> {}, logs |-> <<>>,
          responses |-> <<>>]
    ELSE LET status == StatusOf(error)
             code == CodeOf(error)
             context == ContextOf(error)
             locals == {[status |-> status, code |-> code, context |-> context]}
         IN IF LogThrows(error, status)
            THEN [threw |-> TRUE, logFailed |-> TRUE, locals |-> locals,
                  logs |-> <<>>, responses |-> <<>>]
            ELSE [threw |-> FALSE, logFailed |-> FALSE, locals |-> locals,
                  logs |-> <<[severity |-> SeverityOf(status), error |-> error]>>,
                  responses |-> <<[status |-> status,
                                   body |-> ErrorBody(code, status, context)]>>]

----------------------------------------------------------------------------
(* The request and the gate *)

NoHeaders == [h \in {} |-> <<>>]
SessionHeader(text) == [session |-> text]

\* action.request: its headers, its session property (the empty set while
\* the property is not set) and the route it asks for.
Request(headers) == [headers |-> headers, session |-> {}, url |-> "/me"]

\* action.request.headers.session is truthy: the header is there and is not
\* the empty string.
HasSessionHeader(req) ==
    "session" \in DOMAIN req.headers /\ req.headers.session # <<>>

Returned(req) == [threw |-> FALSE, failure |-> {}, request |-> req]
Threw(f, req) == [threw |-> TRUE, failure |-> {f}, request |-> req]

\* options.http.routingController.authorizationChecker: the request as the
\* call leaves it, and the failure it throws or the fact that it returned
\* true.
\* The checker storing the session only once its userId has passed the test.
ParseAndCheckSession_AssignsAfterCheck(req) ==
    LET parsed == JSONParse(req.headers.session) IN
    IF ~parsed.ok
    THEN Threw(N9Error("session-header-is-invalid", Unauthorized), req)
    ELSE IF PropertyReadThrows(parsed.value)
    THEN Threw(TypeErrorOnRead, req)
    ELSE IF ~Truthy(GetProp(parsed.value, "userId"))
    THEN Threw(N9Error("session-header-has-no-userId", Unauthorized), req)
    ELSE Returned([req EXCEPT !.session = {parsed.value}])

\* The checker from its try block on: the header is parsed into
\* request.session and the session's userId is tested.
ParseAndCheckSession(req) ==
    LET parsed == JSONParse(req.headers.session) IN
    IF ~parsed.ok
    THEN Threw(N9Error("session-header-is-invalid", Unauthorized), req)
    ELSE LET withSession == [req EXCEPT !.session = {parsed.value}] IN
         IF PropertyReadThrows(parsed.value)
         THEN Threw(TypeErrorOnRead, withSession)
         ELSE IF ~Truthy(GetProp(parsed.value, "userId"))
         THEN Threw(N9Error("session-header-has-no-userId", Unauthorized),
                    withSession)
         ELSE Returned(withSession)

\* The checker without its first test: JSON.parse of a missing or empty
\* header throws, which the catch turns into the invalid-header failure.
AuthorizationChecker_NoRequiredTest(req) ==
    IF ~HasSessionHeader(req)
    THEN Threw(N9Error("session-header-is-invalid", Unauthorized), req)
    ELSE ParseAndCheckSession(req)

\* The checker testing `headers.session === undefined` in place of
\* `!headers.session`.
AuthorizationChecker_UndefinedTest(req) ==
    IF "session" \notin DOMAIN req.headers
    THEN Threw(N9Error("session-required", Unauthorized), req)
    ELSE ParseAndCheckSession(req)

\* The checker keeping only the userId of the parsed session.
AuthorizationChecker_KeepsUserIdOnly(req) ==
    IF ~HasSessionHeader(req)
    THEN Threw(N9Error("session-required", Unauthorized), req)
    ELSE LET r == ParseAndCheckSession(req) IN
         IF r.threw THEN r
         ELSE Returned([r.request EXCEPT !.session =
                {Obj([k \in {"userId"} |-> GetProp(TheOne(@), "userId")])}])

AuthorizationChecker(req) ==
    IF ~HasSessionHeader(req)
    THEN Threw(N9Error("session-required", Unauthorized), req)
    ELSE ParseAndCheckSession(req)

\* defaults of the routing controller: a null result answers 404, an
\* undefined one 204, any other 200.
ResultStatus(v) ==
    CASE v.type = "null" -> 404
      [] v.type = "undefined" -> 204
      [] OTHER -> 200

----------------------------------------------------------------------------
(* The pipeline of one request *)

VARIABLES
    sent,         \* the value the client serialized into the header, or Undefined
    request,      \* action.request
    pc,           \* "gate", "handler", "error" or "done"
    failure,      \* the failure on its way to ErrorHandler.error, or none
    gateReturned, \* authorizationChecker returned true
    handlerCalls, \* how many times the route's handler was invoked
    responses,    \* what was written to the response, in order
    logs,         \* the entries given to the logger, in order
    locals,       \* status, code and context as ErrorHandler.error computed them
    escaped,      \* ErrorHandler.error ended by throwing
    logFailed     \* ... and it was the log step that threw

vars == <<sent, request, pc, failure, gateReturned, handlerCalls, responses,
          logs, locals, escaped, logFailed>>

\* The lexemes of the headers written by hand.
RawLexemes == {"{", "}", ":", "\"userId\"", "1", "null", "bad"}

RawTexts == UNION {[1..n -> RawLexemes] : n \in 0..MaxLen}

Primitives ==
    {Null, Num(0), Num(1), Str(""), Str("name"), Bool(FALSE), Bool(TRUE)}

\* The values a client passes to JSON.stringify: primitives, and objects
\* with or without a userId and a name.
ClientValues ==
    Primitives \cup
    {Obj([k \in ks |-> IF k = "userId" THEN u ELSE n]) :
        ks \in SUBSET {"userId", "name"}, u \in Primitives, n \in {Str("name"), Null}}

\* request.session as the gate finds it: not set, or set by a middleware
\* that the application installed in front of the routing controller.
PriorSessions == {{}, {Obj([k \in {"userId"} |-> Str("name")])}}

Fresh ==
    /\ failure = {}
    /\ gateReturned = FALSE
    /\ handlerCalls = 0
    /\ responses = <<>>
    /\ logs = <<>>
    /\ locals = {}
    /\ escaped = FALSE
    /\ logFailed = FALSE

Init ==
    /\ sent \in ClientValues \cup {Undefined}
    /\ \E prior \in PriorSessions :
         request \in
           {[r EXCEPT !.session = prior] :
              r \in IF sent = Undefined
                    THEN {Request(NoHeaders)}
                           \cup {Request(SessionHeader(t)) : t \in RawTexts}
                    ELSE {Request(SessionHeader(JSONStringify(sent)))}}
    /\ pc = "gate"
    /\ Fresh

\* The gate with its failure dropped: the handler is invoked whatever the
\* checker did.
Gate_HandlerAnyway ==
    /\ pc = "gate"
    /\ LET r == AuthorizationChecker(request) IN
         /\ request' = r.request
         /\ failure' = {}
         /\ gateReturned' = ~r.threw
         /\ pc' = "handler"
    /\ UNCHANGED <<sent, handlerCalls, responses, logs, locals, escaped, logFailed>>

\* The routing controller runs the authorization checker of a gated route
\* and goes on to the handler only when it returned true.
Gate ==
    /\ pc = "gate"
    /\ LET r == AuthorizationChecker(request) IN
         /\ request' = r.request
         /\ failure' = r.failure
         /\ gateReturned' = ~r.threw
         /\ pc' = IF r.threw THEN "error" ELSE "handler"
    /\ UNCHANGED <<sent, handlerCalls, responses, logs, locals, escaped, logFailed>>

\* What a handler may throw: any value but null and undefined.
Throwable == Failures \ NullishFailures

\* The handler of the route returns request.session, which the routing
\* controller writes as the JSON body.
HandlerReturns ==
    /\ pc = "handler"
    /\ handlerCalls' = handlerCalls + 1
    /\ LET result == IF request.session = {} THEN Undefined
                     ELSE TheOne(request.session) IN
         responses' = Append(responses, [status |-> ResultStatus(result),
                                         body |-> ResultBody(result)])
    /\ pc' = "done"
    /\ UNCHANGED <<sent, request, failure, gateReturned, logs, locals, escaped,
                   logFailed>>

\* The handler throws instead.
HandlerThrows ==
    /\ pc = "handler"
    /\ handlerCalls' = handlerCalls + 1
    /\ \E f \in Throwable : failure' = {f}
    /\ pc' = "error"
    /\ UNCHANGED <<sent, request, gateReturned, responses, logs, locals, escaped,
                   logFailed>>

\* The failure reaches ErrorHandler.error, the only error middleware.
ErrorHandlerError ==
    /\ pc = "error"
    /\ LET r == ErrorHandlerRun(TheOne(failure)) IN
         /\ logs' = logs \o r.logs
         /\ responses' = responses \o r.responses
         /\ locals' = r.locals
         /\ escaped' = r.threw
         /\ logFailed' = r.logFailed
    /\ pc' = "done"
    /\ UNCHANGED <<sent, request, failure, gateReturned, handlerCalls>>

Next == Gate \/ HandlerReturns \/ HandlerThrows \/ ErrorHandlerError

Spec == Init /\ [][Next]_vars

\* ErrorHandler.error as a function of the failure alone: it is handed any
\* value at all.
InitError ==
    /\ sent = Undefined
    /\ request = Request(NoHeaders)
    /\ pc = "error"
    /\ failure \in {{f} : f \in Failures}
    /\ gateReturned = FALSE
    /\ handlerCalls = 0
    /\ responses = <<>>
    /\ logs = <<>>
    /\ locals = {}
    /\ escaped = FALSE
    /\ logFailed = FALSE

NextError == ErrorHandlerError

SpecError == InitError /\ [][NextError]_vars

----------------------------------------------------------------------------
(* The claims *)

HeaderAbsent == "session" \notin DOMAIN request.headers
HeaderText == request.headers.session

\* The gate threw a failure of this status and message, and the handler was
\* not reached.
GateFailed(status, message) ==
    /\ ~gateReturned
    /\ handlerCalls = 0
    /\ \E f \in failure : f.status = {status} /\ f.message = {message}

\* The client got one response: this HTTP status and an error body of this code.
AnsweredError(status, code) ==
    /\ Len(responses) = 1
    /\ responses[1].status = status
    /\ responses[1].body.kind = "error"
    /\ responses[1].body.code = code

\* The request was rejected this way: by the gate, and so to the client.
Rejected(status, code) ==
    /\ pc # "gate" => GateFailed(status, code)
    /\ pc = "done" => AnsweredError(status, code)

\* C1: a request without a session header fails in the gate with status 401
\* and message 'session-required', and is answered 401 with that code.
C1_SessionRequired == HeaderAbsent => Rejected(401, "session-required")

C1_Witness ==
    HeaderAbsent /\ pc = "done" /\ AnsweredError(401, "session-required")

Unparseable == ~HeaderAbsent /\ ~JSONParse(HeaderText).ok

\* C2 as stated: every header that is present and does not parse as JSON, the
\* empty string included, is rejected with 401 'session-header-is-invalid'.
C2_Original == Unparseable => Rejected(401, "session-header-is-invalid")

\* C2 amended: a header that is present, not empty and does not parse as JSON
\* is rejected with 401 'session-header-is-invalid'; a header present with the
\* empty string as its value is rejected with 401 'session-required'.
C2_InvalidHeader ==
    /\ (Unparseable /\ HeaderText # <<>>) =>
           Rejected(401, "session-header-is-invalid")
    /\ (~HeaderAbsent /\ HeaderText = <<>>) => Rejected(401, "session-required")

C2_Witness ==
    /\ Unparseable
    /\ Len(HeaderText) > 1
    /\ pc = "done"
    /\ AnsweredError(401, "session-header-is-invalid")

\* A parsed value with no truthy userId of its own: no object, an object
\* without the property, or one whose userId is 0, '', false or null.
LacksTruthyUserId(v) ==
    \/ v.type # "object"
    \/ "userId" \notin DOMAIN v.props
    \/ ~Truthy(v.props.userId)

ParsesWithoutUserId ==
    /\ ~HeaderAbsent
    /\ JSONParse(HeaderText).ok
    /\ LacksTruthyUserId(JSONParse(HeaderText).value)

\* C3 as stated: every header that parses to a value without a truthy userId,
\* the JSON value null included, is answered 401 with code
\* 'session-header-has-no-userId'.
C3_Original ==
    (ParsesWithoutUserId /\ pc = "done") =>
        AnsweredError(401, "session-header-has-no-userId")

ValidSession(v) ==
    v.type = "object" /\ "userId" \in DOMAIN v.props /\ Truthy(v.props.userId)

\* The gate let the request through with this value as request.session, and a
\* handler that returned the session answered 200 with it.
Passed(v) ==
    /\ pc # "gate" => gateReturned /\ request.session = {v}
    /\ pc = "handler" => failure = {} /\ responses = <<>>
    /\ (pc = "done" /\ failure = {}) =>
           responses = <<[status |-> 200, body |-> ResultBody(v)]>>

\* C4: when the header is the JSON encoding of an object with a truthy userId,
\* the gate returns true without a failure, request.session is that object,
\* field for field, and the handler echoing it answers 200 with it.
C4_ValidSessionPasses ==
    /\ ValidSession(sent) => Passed(sent)
    /\ (~HeaderAbsent /\ JSONParse(HeaderText).ok
          /\ ValidSession(JSONParse(HeaderText).value)) =>
           Passed(JSONParse(HeaderText).value)

C4_Witness ==
    /\ ValidSession(sent)
    /\ DOMAIN sent.props = {"userId", "name"}
    /\ pc = "done"
    /\ responses = <<[status |-> 200, body |-> ResultBody(sent)]>>

\* The failure ErrorHandler.error was handed.
Handed == TheOne(failure)

\* The normalized error body, with its HTTP status, made of what the handler
\* computed.
Normalized(l) == [status |-> l.status, body |-> ErrorBody(l.code, l.status, l.context)]

\* C5 as stated: ErrorHandler.error never throws; handed an object it writes a
\* status and a body, and handed null, undefined, a string or a number it
\* answers 500 with code 'unspecified-error' and context {}.
C5_Original ==
    (pc = "done" /\ failure # {}) =>
        /\ ~escaped
        /\ Len(responses) = 1
        /\ Handed.type # "object" =>
               responses[1] = [status |-> 500,
                               body |-> ErrorBody("unspecified-error", 500, "{}")]

\* C6 as stated: a finished request has exactly one response, the handler's
\* result when nothing failed and one normalized error body otherwise.
C6_Original ==
    pc = "done" =>
        /\ Len(responses) = 1
        /\ responses[1].body.kind = (IF failure = {} THEN "result" ELSE "error")

\* C7 as stated: when the log step of ErrorHandler.error throws, the client
\* still gets the response made of the status, code and context computed
\* before it.
C7_Original ==
    (pc = "done" /\ logFailed) =>
        \E l \in locals : responses = <<Normalized(l)>>

\* A status or code field counts as declared when it is set to a value that
\* `||` does not skip: a status other than 0, a string other than ''.
DeclaredNum(s) == s # {} /\ s # {0}
DeclaredStr(s) == s # {} /\ s # {""}

\* The failure's declared HTTP status: its status, else its httpCode.
DeclaredStatus(f) ==
    IF DeclaredNum(f.status) THEN f.status
    ELSE IF DeclaredNum(f.httpCode) THEN f.httpCode
    ELSE {}

\* C8 as stated: each failure handed to ErrorHandler.error leaves exactly one
\* log entry, a warning when the computed status is below 500, an error when
\* the declared status is 500 or more or none is declared.
C8_Original ==
    (pc = "done" /\ failure # {}) =>
        /\ Len(logs) = 1
        /\ \A l \in locals : l.status < 500 => logs[1].severity = "warn"
        /\ (\A st \in DeclaredStatus(Handed) : st >= 500) =>
               /\ logs[1].severity = "error"
               /\ DeclaredStatus(Handed) = {} => \A l \in locals : l.status = 500

\* C9: the status ErrorHandler.error computes is the failure's declared status
\* (status, else httpCode) when there is one and 500 otherwise, and the HTTP
\* status of the response it writes is the status field of the body.
C9_Status ==
    /\ \A l \in locals :
           l.status = (IF DeclaredStatus(Handed) # {}
                       THEN TheOne(DeclaredStatus(Handed)) ELSE 500)
    /\ \A i \in 1..Len(responses) :
           responses[i].body.kind = "error" =>
               /\ responses[i].status = responses[i].body.status
               /\ \E l \in locals : responses[i].status = l.status

C9_Witness ==
    /\ pc = "done"
    /\ failure # {}
    /\ Handed.status = {} /\ Handed.httpCode = {404}
    /\ Len(responses) = 1
    /\ responses[1].status = 404 /\ responses[1].body.status = 404

GateMessages ==
    {"session-required", "session-header-is-invalid", "session-header-has-no-userId"}

\* C10: the code ErrorHandler.error computes, and writes to the body, is the
\* failure's name when it has one other than 'Error', else its message when
\* that is not empty, else 'unspecified-error'; a failure of the gate is
\* answered with its message as the code.
C10_Code ==
    /\ \A l \in locals :
           l.code = (IF DeclaredStr(Handed.name) /\ Handed.name # {"Error"}
                     THEN TheOne(Handed.name)
                     ELSE IF DeclaredStr(Handed.message) THEN TheOne(Handed.message)
                     ELSE "unspecified-error")
    /\ \A i \in 1..Len(responses) :
           responses[i].body.kind = "error" =>
               \E l \in locals : responses[i].body.code = l.code
    /\ (pc = "done" /\ ~gateReturned /\ Handed.status = {401}) =>
           /\ Handed.message \subseteq GateMessages
           /\ AnsweredError(401, TheOne(Handed.message))

C10_Witness ==
    /\ pc = "done"
    /\ gateReturned
    /\ failure # {}
    /\ Handed.name = {"TypeError"} /\ Handed.message = {"boom"}
    /\ Len(responses) = 1
    /\ responses[1].body.code = "TypeError"

\* A detail field counts as declared when it is set to a value that `||`
\* does not skip: an object or a list, not null.
DeclaredDetail(d) == d # {} /\ d # {"null"}

\* C11: the context ErrorHandler.error computes, and writes to the body, is
\* the failure's context when it declares one, else its errors list when it
\* declares one, else the empty object; it is never missing and never null.
C11_Context ==
    /\ \A l \in locals :
           /\ l.context = (IF DeclaredDetail(Handed.context) THEN TheOne(Handed.context)
                           ELSE IF DeclaredDetail(Handed.errors) THEN TheOne(Handed.errors)
                           ELSE "{}")
           /\ l.context \notin {"", "null", "undefined"}
    /\ \A i \in 1..Len(responses) :
           responses[i].body.kind = "error" =>
               /\ responses[i].body.context \notin {"", "null", "undefined"}
               /\ \E l \in locals : responses[i].body.context = l.context

C11_Witness ==
    /\ pc = "done"
    /\ failure # {}
    /\ Handed.context = {"null"}
    /\ Handed.errors = {"[{\"property\":\"name\"}]"}
    /\ Len(responses) = 1
    /\ responses[1].body.context = "[{\"property\":\"name\"}]"

\* The handler threw a plain Error: name 'Error', no status or httpCode, no
\* context or errors; its message is any.
HandlerThrewGeneric ==
    /\ gateReturned
    /\ handlerCalls = 1
    /\ failure # {}
    /\ Handed.type = "object"
    /\ Handed.name = {"Error"}
    /\ Handed.status = {} /\ Handed.httpCode = {}
    /\ Handed.context = {} /\ Handed.errors = {}

\* C12 as stated: a generic failure without a status thrown by a handler is
\* answered 500 with the body {code: 'unspecified-error', status: 500,
\* context: {}}, whatever its message.
C12_Original ==
    (pc = "done" /\ HandlerThrewGeneric) =>
        responses = <<[status |-> 500,
                       body |-> ErrorBody("unspecified-error", 500, "{}")]>>

\* C12 amended: such a failure is answered 500 with status 500 and context {}
\* in the body; the code is the failure's message when it has one that is not
\* empty, and 'unspecified-error' when it has none.
C12_GenericFailure ==
    (pc = "done" /\ HandlerThrewGeneric) =>
        responses = <<[status |-> 500,
                       body |-> ErrorBody(IF DeclaredStr(Handed.message)
                                          THEN TheOne(Handed.message)
                                          ELSE "unspecified-error", 500, "{}")]>>

C12_Witness ==
    /\ pc = "done"
    /\ HandlerThrewGeneric
    /\ Handed.message = {"boom"}
    /\ responses = <<[status |-> 500, body |-> ErrorBody("boom", 500, "{}")]>>

\* C13: the handler is invoked only after the gate returned true; when the
\* gate threw, whatever it threw, the handler is never invoked and the failure
\* goes to ErrorHandler.error, which is also where a failure of the handler
\* goes and the only place that answers a failure.
C13_GateBeforeHandler ==
    /\ pc = "gate" => handlerCalls = 0 /\ responses = <<>>
    /\ handlerCalls > 0 => gateReturned
    /\ pc = "handler" => gateReturned /\ failure = {}
    /\ (pc # "gate" /\ ~gateReturned) =>
           /\ handlerCalls = 0
           /\ failure # {}
           /\ pc \in {"error", "done"}
    /\ (pc = "error") => failure # {} /\ locals = {} /\ responses = <<>>
    /\ (pc = "done" /\ failure # {}) =>
           /\ locals # {} \/ escaped
           /\ \A i \in 1..Len(responses) :
                  \E l \in locals : responses[i] = Normalized(l)

C13_Witness ==
    /\ pc = "done"
    /\ ~gateReturned
    /\ handlerCalls = 0
    /\ Handed.name = {"TypeError"}
    /\ \E l \in locals : responses = <<Normalized(l)>>

\* C14: the gate leaves the headers and the rest of the request as they
\* were and writes request.session only once the header has parsed: a
\* rejection with 'session-required' or 'session-header-is-invalid' leaves
\* request.session as it was, a rejection with 'session-header-has-no-userId'
\* leaves the parsed, rejected value in it; no later step touches the request.
C14_GateFrame ==
    [][/\ DOMAIN request' = DOMAIN request
       /\ request'.headers = request.headers
       /\ request'.url = request.url
       /\ pc # "gate" => request'.session = request.session
       /\ pc = "gate" =>
            \A f \in failure' :
              /\ f.message \subseteq {"session-required", "session-header-is-invalid"}
                   => request'.session = request.session
              /\ f.message = {"session-header-has-no-userId"}
                   => /\ ~HeaderAbsent
                      /\ LacksTruthyUserId(JSONParse(HeaderText).value)
                      /\ request'.session = {JSONParse(HeaderText).value}]_vars

C14_Witness ==
    /\ pc = "error"
    /\ \E f \in failure : f.message = {"session-header-has-no-userId"}
    /\ request.session = {Obj(NoProps)}
    /\ HeaderText = <<"{", "}">>

====
